---- MODULE Spec2Model ----
(***************************************************************************)
(* bankcsv (src/main.go): conversion of bank CSV exports into a           *)
(* double-entry CSV ledger.                                                *)
(*                                                                         *)
(* Go strings are modelled as sequences of one-character strings, so that  *)
(* trimming, prefixing, indexing and formatting are computed character by  *)
(* character.  The process is modelled from main() on: the parser          *)
(* goroutine, the unbuffered channel, the consumer loop of processCsvs,    *)
(* the csv.Writer buffer and the output sink.  Records are kept as their   *)
(* fields, before the quoting of encoding/csv; the bufio buffer under the   *)
(* csv.Writer may pass what it holds to the sink at any Write.             *)
(***************************************************************************)
EXTENDS Integers, Sequences, FiniteSets, TLC

VARIABLES
    phase,      \* "main" | "start" | "run" | "exit" | "value"
    nargs,      \* flag.NArg()
    nInputs,    \* len(inputNames)
    cfg,        \* cfg.AccountFromDescription
    exitCode,   \* -1 while the process runs, else the exit status
    fatal,      \* what ended the process: "none" or the failing step
    usage,      \* the usage message went to standard error
    ppc,        \* parser goroutine: "idle" | "open" | "read" | "send" | "done"
    fileIdx,    \* index of the input file of the range loop
    iscredit,   \* var iscredit bool of the current file
    lastdate,   \* lastdate of the goroutine
    counter,    \* counter of the goroutine
    ch,         \* the value offered on the channel: <<>> or <<t>>
    closed,     \* close(out) has run
    cpc,        \* consumer loop: "idle" | "recv" | "proc" | "done"
    cur,        \* the transaction the consumer loop body holds: <<>> or <<t>>
    sink,       \* records that reached outFd
    buf,        \* records still in the csv.Writer buffer
    warnings,   \* descriptions logged by log.Printf
    lines,      \* history: every record read, with its file
    sent,       \* history: every transaction pushed, with the index of its record
    processed,  \* history: every transaction the loop body finished
    vline,      \* valueParse on its own: the record
    vcredit,    \* valueParse on its own: iscredit
    vvalue,     \* valueParse on its own: the value returned
    vinv,       \* the value Add gives the destination record
    vdone,      \* valueParse on its own: applied
    crules,     \* the rule loop on its own: the rules
    ctrans,     \* the rule loop on its own: the transaction
    cout,       \* the rule loop on its own: err, found and the transaction after it
    cdone       \* the rule loop on its own: applied

vars == <<phase, nargs, nInputs, cfg, exitCode, fatal, usage, ppc, fileIdx,
          iscredit, lastdate, counter, ch, closed, cpc, cur, sink, buf,
          warnings, lines, sent, processed, vline, vcredit, vvalue, vinv, vdone,
          crules, ctrans, cout, cdone>>

----------------------------------------------------------------------------
(* Bounds of the model *)

MaxArgs == 4
MaxFiles == 2
MaxRows == 3
MaxRules == 3

----------------------------------------------------------------------------
(* Strings *)

Digits == <<"0", "1", "2", "3", "4", "5", "6", "7", "8", "9">>

IsDigit(c) == \E i \in 1..10 : Digits[i] = c

DigitVal(c) == (CHOOSE i \in 1..10 : Digits[i] = c) - 1

IsSpace(c) == c \in {" ", "\t", "\n", "\r"}

RECURSIVE TrimLeft(_)
TrimLeft(s) == IF s # <<>> /\ IsSpace(Head(s)) THEN TrimLeft(Tail(s)) ELSE s

RECURSIVE TrimRight(_)
TrimRight(s) ==
    IF s # <<>> /\ IsSpace(s[Len(s)]) THEN TrimRight(SubSeq(s, 1, Len(s) - 1)) ELSE s

TrimSpace(s) == TrimRight(TrimLeft(s))

RECURSIVE DecDigits(_)
DecDigits(n) == IF n < 10 THEN <<Digits[n + 1]>> ELSE DecDigits(n \div 10) \o <<Digits[(n % 10) + 1]>>

RECURSIVE ZeroPad(_, _)
ZeroPad(s, w) == IF Len(s) >= w THEN s ELSE ZeroPad(<<"0">> \o s, w)

\* fmt verb %0wd, for n >= 0
FmtD(n, w) == ZeroPad(DecDigits(n), w)

RECURSIVE ToNat(_)
ToNat(s) == IF s = <<>> THEN 0 ELSE 10 * ToNat(SubSeq(s, 1, Len(s) - 1)) + DigitVal(s[Len(s)])

Contains(s, sub) ==
    \E i \in 1..(Len(s) - Len(sub) + 1) : SubSeq(s, i, i + Len(sub) - 1) = sub

----------------------------------------------------------------------------
(* Literals of the program *)

PostedTransactionsDate == <<" ", "P", "o", "s", "t", "e", "d", " ", "T", "r", "a", "n", "s", "a", "c", "t", "i", "o", "n", "s", " ", "D", "a", "t", "e">>
MaskedCardNumber == <<"M", "a", "s", "k", "e", "d", " ", "C", "a", "r", "d", " ", "N", "u", "m", "b", "e", "r">>
PostedAccount == <<"P", "o", "s", "t", "e", "d", " ", "A", "c", "c", "o", "u", "n", "t">>
ZeroValue == <<"0", ".", "0", "0">>
CsvHeader == <<<<"i", "d">>, <<"d", "a", "t", "e">>, <<"d", "e", "s", "c", "r", "i", "p", "t", "i", "o", "n">>, <<"w", "i", "t", "h", "d", "r", "a", "w", "a", "l">>, <<"a", "c", "c", "o", "u", "n", "t">>>>

----------------------------------------------------------------------------
(* time.Parse("02/01/2006", line) and the formats *)

IsLeap(y) == (y % 4 = 0 /\ y % 100 # 0) \/ y % 400 = 0

DaysIn(m, y) ==
    IF m = 2 THEN (IF IsLeap(y) THEN 29 ELSE 28)
    ELSE IF m \in {4, 6, 9, 11} THEN 30 ELSE 31

NoDate == [y |-> 0, m |-> 0, d |-> 0]

timeParse(line) ==
    IF /\ Len(line) = 10
       /\ line[3] = "/" /\ line[6] = "/"
       /\ \A i \in {1, 2, 4, 5, 7, 8, 9, 10} : IsDigit(line[i])
    THEN LET d == ToNat(SubSeq(line, 1, 2))
             m == ToNat(SubSeq(line, 4, 5))
             y == ToNat(SubSeq(line, 7, 10))
         IN IF m \in 1..12 /\ d >= 1 /\ d <= DaysIn(m, y)
            THEN [err |-> FALSE, date |-> [y |-> y, m |-> m, d |-> d]]
            ELSE [err |-> TRUE, date |-> NoDate]
    ELSE [err |-> TRUE, date |-> NoDate]

\* t.Date.Format("2006-01-02")
dateFormat(date) == FmtD(date.y, 4) \o <<"-">> \o FmtD(date.m, 2) \o <<"-">> \o FmtD(date.d, 2)

\* variant: the counter is never reset
ymdCounterKeep(date, last, cnt) == cnt

\* the counter after ymdParse: reset when the date differs from lastdate
ymdCounter(date, last, cnt) == IF date # last THEN 1 ELSE cnt

\* fmt.Sprintf("%04d%02d%02d%02d", year, month, day, *counter)
idFormat(date, cnt) == FmtD(date.y, 4) \o FmtD(date.m, 2) \o FmtD(date.d, 2) \o FmtD(cnt, 2)

----------------------------------------------------------------------------
(* valueParse *)

\* variant: "0.00" is taken as a value
valueParseNoZero(line, credit) ==
    LET value == IF credit THEN TrimSpace(line[4]) ELSE TrimSpace(line[6])
    IN IF value = <<>>
       THEN (IF credit THEN <<"-">> \o TrimSpace(line[5]) ELSE <<"-">> \o TrimSpace(line[7]))
       ELSE value

\* line[k] of the Go code is line[k + 1] here: sequences start at 1
valueParse(line, credit) ==
    LET value == IF credit THEN TrimSpace(line[4]) ELSE TrimSpace(line[6])
    IN IF value = ZeroValue \/ value = <<>>
       THEN (IF credit THEN <<"-">> \o TrimSpace(line[5]) ELSE <<"-">> \o TrimSpace(line[7]))
       ELSE value

lineParse(line, credit, date, cnt) ==
    [ID |-> idFormat(date, cnt), Date |-> date, Description |-> line[3],
     Value |-> valueParse(line, credit), Account |-> <<>>, SrcAccount |-> <<>>]

\* the header switch of inputsParse
headerKnown(first) == first \in {MaskedCardNumber, PostedAccount}

\* variant: every known header selects the credit layout
headerIsCreditAlways(first) == TRUE

headerIsCredit(first) == first = MaskedCardNumber

----------------------------------------------------------------------------
(* The rules: regexp.MatchString and the loop over cfg.AccountFromDescription *)

\* patterns are literals; a pattern holding an unclosed "(" does not compile
regexErr(re) == \E i \in 1..Len(re) : re[i] = "("

matchString(re, s) == Contains(s, re)

\* variant: the first matching rule wins
RECURSIVE classifyFirst(_, _, _)
classifyFirst(rules, t, found) ==
    IF rules = <<>> THEN [err |-> FALSE, found |-> found, t |-> t]
    ELSE IF regexErr(Head(rules).Regex) THEN [err |-> TRUE, found |-> found, t |-> t]
    ELSE IF matchString(Head(rules).Regex, t.Description) /\ ~found
         THEN classifyFirst(Tail(rules), [t EXCEPT !.Account = Head(rules).Account], TRUE)
         ELSE classifyFirst(Tail(rules), t, found)

\* found and t.Account after the rules from rules on
RECURSIVE classify(_, _, _)
classify(rules, t, found) ==
    IF rules = <<>> THEN [err |-> FALSE, found |-> found, t |-> t]
    ELSE IF regexErr(Head(rules).Regex) THEN [err |-> TRUE, found |-> found, t |-> t]
    ELSE IF matchString(Head(rules).Regex, t.Description)
         THEN classify(Tail(rules), [t EXCEPT !.Account = Head(rules).Account], TRUE)
         ELSE classify(Tail(rules), t, found)

----------------------------------------------------------------------------
(* outputCsvFormat *)

\* variant: no header is written
initSinkNoHeader == <<>>

\* Init: the header goes straight to outFd
initSink == <<CsvHeader>>

\* variant: the test on the first character is inverted
invertValueSwapped(value) == IF value[1] # "-" THEN Tail(value) ELSE <<"-">> \o value

\* Add: the value of the destination record (value is never empty here)
invertValue(value) == IF value[1] = "-" THEN Tail(value) ELSE <<"-">> \o value

srcRecord(t) == <<t.ID, dateFormat(t.Date), t.Description, t.Value, t.SrcAccount>>

dstRecord(t) == <<<<>>, <<>>, <<>>, invertValue(t.Value), t.Account>>

\* the records Add hands to the csv.Writer
addRecords(t) == IF t.Account # <<>> THEN <<srcRecord(t), dstRecord(t)>> ELSE <<srcRecord(t)>>

----------------------------------------------------------------------------
(* Inputs: the arguments, the configuration and the records of the files *)

SrcAccountName == <<"A", "s", "s", "e", "t", "s">>

RuleA == [Account |-> <<"A">>, Regex |-> <<"x">>]
RuleB == [Account |-> <<"B">>, Regex |-> <<"x">>]
RuleC == [Account |-> <<"C">>, Regex |-> <<"y">>]
RuleBad == [Account |-> <<"D">>, Regex |-> <<"(">>]

CfgPool == {<<>>, <<RuleA, RuleB>>, <<RuleA, RuleBad>>}

RulePool == {RuleA, RuleB, RuleC, RuleBad}

DescPool == {<<"x", "y">>, <<"y">>, <<"z">>}

RuleLists == UNION {[1..n -> RulePool] : n \in 0..MaxRules}

NoTransaction ==
    [ID |-> <<>>, Date |-> NoDate, Description |-> <<>>, Value |-> <<>>, Account |-> <<>>,
     SrcAccount |-> <<>>]

Row1 == <<<<"1">>, <<"0", "1", "/", "0", "2", "/", "2", "0", "2", "0">>, <<"x", "y">>, <<"5", ".", "0", "0">>, <<"1", ".", "0", "0">>, <<>>, <<"8", ".", "0", "0">>>>
Row2 == <<<<"1">>, <<"0", "2", "/", "0", "2", "/", "2", "0", "2", "0">>, <<"z">>, <<"0", ".", "0", "0">>, <<"-", "3">>, <<" ", "7", " ">>, <<>>>>
RowBadDate == <<<<"1">>, <<"2", "0", "2", "0", "-", "0", "2", "-", "0", "1">>, <<"x", "y">>, <<"5", ".", "0", "0">>, <<>>, <<>>, <<>>>>
HdrCredit == <<MaskedCardNumber, PostedTransactionsDate, <<>>, <<>>, <<>>, <<>>, <<>>>>
HdrDebit == <<PostedAccount, PostedTransactionsDate, <<>>, <<>>, <<>>, <<>>, <<>>>>
HdrOther == <<<<"A", "c", "c", "o", "u", "n", "t">>, PostedTransactionsDate, <<>>, <<>>, <<>>, <<>>, <<>>>>

RowPool == {Row1, Row2, RowBadDate, HdrCredit, HdrDebit, HdrOther}

FieldPool == {<<>>, <<" ">>, <<"0", ".", "0", "0">>, <<" ", "0", ".", "0", "0">>, <<"5", ".", "0", "0">>, <<"-", "3">>, <<" ", "7", " ">>, <<"0">>}

----------------------------------------------------------------------------
(* The initial states *)

timeNow == NoDate

PipelineIdle ==
    /\ cfg = <<>> /\ exitCode = -1 /\ fatal = "none" /\ usage = FALSE
    /\ ppc = "idle" /\ fileIdx = 0 /\ iscredit = FALSE
    /\ lastdate = NoDate /\ counter = 0
    /\ ch = <<>> /\ closed = FALSE /\ cpc = "idle" /\ cur = <<>>
    /\ sink = <<>> /\ buf = <<>> /\ warnings = <<>>
    /\ lines = <<>> /\ sent = <<>> /\ processed = <<>>

ValueIdle ==
    /\ vline = <<>> /\ vcredit = FALSE /\ vvalue = <<>> /\ vinv = <<>> /\ vdone = FALSE

ClassifyIdle ==
    /\ crules = <<>> /\ ctrans = NoTransaction /\ cdone = FALSE
    /\ cout = [err |-> FALSE, found |-> FALSE, t |-> NoTransaction]

\* the process at the entry of main, with any number of positional arguments
Init ==
    /\ phase = "main" /\ nargs \in 0..MaxArgs /\ nInputs = 0
    /\ PipelineIdle /\ ValueIdle /\ ClassifyIdle

\* processCsvs called with any list of input names
InitProcess ==
    /\ phase = "start" /\ nInputs \in 0..MaxFiles /\ nargs = nInputs + 2
    /\ PipelineIdle /\ ValueIdle /\ ClassifyIdle

\* valueParse and the inversion of Add on any record
InitValue ==
    /\ phase = "value" /\ nargs = 0 /\ nInputs = 0
    /\ PipelineIdle
    /\ vline \in {<<<<>>, <<>>, <<>>, f3, f4, f5, f6>> : f3 \in FieldPool, f4 \in FieldPool,
                                                        f5 \in FieldPool, f6 \in FieldPool}
    /\ vcredit \in BOOLEAN
    /\ vvalue = <<>> /\ vinv = <<>> /\ vdone = FALSE
    /\ ClassifyIdle

\* the rule loop of processCsvs on any rule list and any description
InitClassify ==
    /\ phase = "classify" /\ nargs = 0 /\ nInputs = 0
    /\ PipelineIdle /\ ValueIdle
    /\ crules \in RuleLists
    /\ ctrans \in {[NoTransaction EXCEPT !.Description = d] : d \in DescPool}
    /\ cdone = FALSE
    /\ cout = [err |-> FALSE, found |-> FALSE, t |-> NoTransaction]

----------------------------------------------------------------------------
(* The actions *)

mainVars == <<nargs, nInputs, usage>>
valueVars == <<vline, vcredit, vvalue, vinv, vdone, crules, ctrans, cout, cdone>>
prodVars == <<ppc, fileIdx, iscredit, lastdate, counter>>
chanVars == <<ch, closed>>
consVars == <<cpc, cur>>
outVars == <<sink, buf, warnings>>
histVars == <<lines, sent, processed>>

\* os.Exit and an unrecovered panic alike end every goroutine at once
Exit(code, cause) == phase' = "exit" /\ exitCode' = code /\ fatal' = cause

Running == phase' = phase /\ exitCode' = exitCode /\ fatal' = fatal

Main ==
    /\ phase = "main"
    /\ IF nargs # 3
       THEN /\ usage' = TRUE
            /\ Exit(1, "usage")
            /\ UNCHANGED nInputs
       ELSE /\ phase' = "start"
            /\ nInputs' = nargs - 2
            /\ UNCHANGED <<exitCode, fatal, usage>>
    /\ UNCHANGED <<nargs, cfg, prodVars, chanVars, consVars, outVars, histVars, valueVars>>

\* processCsvs up to the range over inputsParse(inputNames)
ProcessStart ==
    /\ phase = "start"
    /\ \E c \in CfgPool, cfgOk \in BOOLEAN, createOk \in BOOLEAN, writeOk \in BOOLEAN :
         IF ~cfgOk
         THEN /\ Exit(2, "config")
              /\ UNCHANGED <<cfg, prodVars, consVars, sink>>
         ELSE IF ~createOk
         THEN /\ Exit(1, "create")
              /\ cfg' = c
              /\ UNCHANGED <<prodVars, consVars, sink>>
         ELSE IF ~writeOk
         THEN /\ Exit(1, "write")
              /\ cfg' = c
              /\ UNCHANGED <<prodVars, consVars, sink>>
         ELSE /\ phase' = "run"
              /\ cfg' = c
              /\ sink' = initSink
              /\ ppc' = "open" /\ fileIdx' = 1 /\ lastdate' = timeNow /\ counter' = 1
              /\ cpc' = "recv"
              /\ UNCHANGED <<exitCode, fatal, iscredit, cur>>
    /\ UNCHANGED <<mainVars, chanVars, buf, warnings, histVars, valueVars>>

\* os.Open of the next input name
OpenInput ==
    /\ phase = "run" /\ ppc = "open" /\ fileIdx <= nInputs
    /\ \E ok \in BOOLEAN :
         IF ok
         THEN /\ ppc' = "read" /\ iscredit' = FALSE
              /\ Running
         ELSE /\ Exit(1, "open")
              /\ UNCHANGED <<ppc, iscredit>>
    /\ UNCHANGED <<mainVars, cfg, fileIdx, lastdate, counter, chanVars, consVars, outVars,
                   histVars, valueVars>>

\* variant: the channel is left open
parserCloseNever == closed

\* defer close(out)
parserClose == TRUE

\* the range loop is over: the deferred close(out) runs
ParserDone ==
    /\ phase = "run" /\ ppc = "open" /\ fileIdx > nInputs
    /\ ppc' = "done"
    /\ closed' = parserClose
    /\ UNCHANGED <<phase, exitCode, fatal, mainVars, cfg, fileIdx, iscredit, lastdate, counter,
                   ch, consVars, outVars, histVars, valueVars>>

\* inputCsv.Read() returns io.EOF
ReadEOF ==
    /\ phase = "run" /\ ppc = "read"
    /\ fileIdx' = fileIdx + 1
    /\ ppc' = "open"
    /\ UNCHANGED <<phase, exitCode, fatal, mainVars, cfg, iscredit, lastdate, counter,
                   chanVars, consVars, outVars, histVars, valueVars>>

\* inputCsv.Read() returns another error
ReadError ==
    /\ phase = "run" /\ ppc = "read"
    /\ Exit(1, "csv")
    /\ UNCHANGED <<mainVars, cfg, prodVars, chanVars, consVars, outVars, histVars, valueVars>>

\* inputCsv.Read() returns a header record
ReadHeader ==
    /\ phase = "run" /\ ppc = "read" /\ Len(lines) < MaxRows
    /\ \E line \in RowPool :
         /\ line[2] = PostedTransactionsDate
         /\ lines' = Append(lines, [file |-> fileIdx, line |-> line])
         /\ IF headerKnown(line[1])
            THEN /\ iscredit' = headerIsCredit(line[1])
                 /\ Running
            ELSE /\ Exit(2, "format")
                 /\ UNCHANGED iscredit
    /\ UNCHANGED <<mainVars, cfg, ppc, fileIdx, lastdate, counter, chanVars, consVars, outVars,
                   sent, processed, valueVars>>

\* inputCsv.Read() returns a data record: lineParse, then the send on out
ReadData ==
    /\ phase = "run" /\ ppc = "read" /\ Len(lines) < MaxRows
    /\ \E line \in RowPool :
         /\ line[2] # PostedTransactionsDate
         /\ lines' = Append(lines, [file |-> fileIdx, line |-> line])
         /\ LET p == timeParse(line[2])
                cnt == ymdCounter(p.date, lastdate, counter)
            IN IF p.err
               THEN /\ Exit(1, "date")
                    /\ UNCHANGED <<ppc, lastdate, counter, ch, sent>>
               ELSE /\ counter' = cnt
                    /\ lastdate' = p.date
                    /\ ch' = <<lineParse(line, iscredit, p.date, cnt)>>
                    /\ sent' = Append(sent, [t |-> lineParse(line, iscredit, p.date, cnt),
                                             at |-> Len(lines) + 1])
                    /\ ppc' = "send"
                    /\ Running
    /\ UNCHANGED <<mainVars, cfg, fileIdx, iscredit, closed, consVars, outVars, processed,
                   valueVars>>

\* the rendezvous: the range receives t, the send returns and counter++ runs
Receive ==
    /\ phase = "run" /\ cpc = "recv" /\ ppc = "send" /\ ch # <<>>
    /\ cur' = ch
    /\ ch' = <<>>
    /\ cpc' = "proc"
    /\ ppc' = "read"
    /\ counter' = counter + 1
    /\ UNCHANGED <<phase, exitCode, fatal, mainVars, cfg, fileIdx, iscredit, lastdate, closed,
                   outVars, histVars, valueVars>>

\* variant: the first matching rule wins, on the whole list
classifyRulesFirst(rules, t) == classifyFirst(rules, t, FALSE)

\* the loop over cfg.AccountFromDescription, found starting false
classifyRules(rules, t) == classify(rules, t, FALSE)

\* the body of the range loop of processCsvs
Process ==
    /\ phase = "run" /\ cpc = "proc"
    /\ LET t0 == [cur[1] EXCEPT !.SrcAccount = SrcAccountName]
           r == classifyRules(cfg, t0)
       IN IF r.err
          THEN /\ Exit(2, "regex")
               /\ UNCHANGED <<consVars, outVars, processed>>
          ELSE IF r.found
          THEN \E k \in {0} \cup (Len(buf)..Len(buf \o addRecords(r.t))), ok \in BOOLEAN :
                 IF ok
                 THEN /\ sink' = sink \o SubSeq(buf \o addRecords(r.t), 1, k)
                      /\ buf' = SubSeq(buf \o addRecords(r.t), k + 1,
                                       Len(buf \o addRecords(r.t)))
                      /\ processed' = Append(processed,
                             [t |-> r.t, rows |-> addRecords(r.t), warned |-> FALSE])
                      /\ cpc' = "recv" /\ cur' = <<>>
                      /\ Running
                      /\ UNCHANGED warnings
                 ELSE /\ Exit(1, "write")
                      /\ UNCHANGED <<consVars, outVars, processed>>
          ELSE /\ warnings' = Append(warnings, r.t.Description)
               /\ processed' = Append(processed, [t |-> r.t, rows |-> <<>>, warned |-> TRUE])
               /\ cpc' = "recv" /\ cur' = <<>>
               /\ Running
               /\ UNCHANGED <<sink, buf>>
    /\ UNCHANGED <<mainVars, cfg, prodVars, chanVars, lines, sent, valueVars>>

\* the range sees the channel closed: o.Finish(), then processCsvs and main return
\* (the deferred outFd.Close() of a named output is taken to succeed)
Finish ==
    /\ phase = "run" /\ cpc = "recv" /\ ch = <<>> /\ closed
    /\ \E ok \in BOOLEAN :
         IF ok
         THEN /\ sink' = sink \o buf
              /\ buf' = <<>>
              /\ cpc' = "done"
              /\ Exit(0, "none")
         ELSE /\ Exit(1, "write")
              /\ UNCHANGED <<sink, buf, cpc>>
    /\ UNCHANGED <<mainVars, cfg, prodVars, chanVars, cur, warnings, histVars, valueVars>>

\* valueParse on a record, and the value Add would give the destination record
ValueApply ==
    /\ phase = "value" /\ ~vdone
    /\ vvalue' = valueParse(vline, vcredit)
    /\ vinv' = invertValue(valueParse(vline, vcredit))
    /\ vdone' = TRUE
    /\ UNCHANGED <<phase, exitCode, fatal, mainVars, cfg, prodVars, chanVars, consVars,
                   outVars, histVars, vline, vcredit, crules, ctrans, cout, cdone>>

\* the loop over the rules on a transaction
ClassifyApply ==
    /\ phase = "classify" /\ ~cdone
    /\ cout' = classifyRules(crules, ctrans)
    /\ cdone' = TRUE
    /\ UNCHANGED <<phase, exitCode, fatal, mainVars, cfg, prodVars, chanVars, consVars,
                   outVars, histVars, vline, vcredit, vvalue, vinv, vdone, crules, ctrans>>

Parser == OpenInput \/ ParserDone \/ ReadEOF \/ ReadError \/ ReadHeader \/ ReadData

Consumer == Receive \/ Process \/ Finish

NextProcess == ProcessStart \/ Parser \/ Consumer

Next == Main \/ NextProcess

NextValue == ValueApply

Spec == Init /\ [][Next]_vars

SpecProcess == InitProcess /\ [][NextProcess]_vars

\* the Go scheduler keeps running some runnable goroutine while there is one
SpecProcessFair ==
    /\ InitProcess /\ [][NextProcess]_vars
    /\ WF_vars(NextProcess)

SpecValue == InitValue /\ [][NextValue]_vars

NextClassify == ClassifyApply

SpecClassify == InitClassify /\ [][NextClassify]_vars

----------------------------------------------------------------------------
(* Helpers of the properties *)

SetMax(S) == CHOOSE x \in S : \A y \in S : y <= x

Matching(rules, desc) == {i \in 1..Len(rules) : matchString(rules[i].Regex, desc)}

\* the two counter digits that end an id
CounterOf(t) == ToNat(SubSeq(t.ID, 9, Len(t.ID)))

IsHeader(line) == line[2] = PostedTransactionsDate

\* the headers read before record k in the file of record k
HeadersBefore(k) ==
    {j \in 1..(k - 1) : lines[j].file = lines[k].file /\ IsHeader(lines[j].line)}

RECURSIVE StripMinus(_)
StripMinus(s) == IF s # <<>> /\ Head(s) = "-" THEN StripMinus(Tail(s)) ELSE s

\* a value read as a sign and a magnitude: every leading '-' negates what follows it
Magnitude(s) == StripMinus(s)

Sign(s) == IF (Len(s) - Len(StripMinus(s))) % 2 = 0 THEN 1 ELSE -1

RECURSIVE Flatten(_)
Flatten(ss) == IF ss = <<>> THEN <<>> ELSE Head(ss) \o Flatten(Tail(ss))

\* the records Add was given, in order
RecordsWritten == Flatten([i \in 1..Len(processed) |-> processed[i].rows])

Base(t) == [ID |-> t.ID, Date |-> t.Date, Description |-> t.Description, Value |-> t.Value]

ParserFatal == fatal \in {"date", "csv", "open"}

----------------------------------------------------------------------------
(* The claims *)

\* C1: a transaction whose description matches no rule gets exactly one record,
\* its source record, and a warning.
C1_UnclassifiedSourceRow ==
    \A i \in 1..Len(processed) :
        Matching(cfg, processed[i].t.Description) = {}
            => /\ processed[i].rows = <<srcRecord(processed[i].t)>>
               /\ processed[i].warned

\* C2: for every rule list and every transaction, the loop leaves as account
\* the account of the last rule of the list whose regex matches the
\* description, and leaves the account unset when no rule matches.
C2_LastMatchWins ==
    (cdone /\ ~cout.err) =>
        LET ms == Matching(crules, ctrans.Description)
        IN /\ cout.t.Account = IF ms = {} THEN <<>> ELSE crules[SetMax(ms)].Account
           /\ cout.found = (ms # {})

C2_Witness ==
    /\ cdone /\ ~cout.err
    /\ crules = <<RuleA, RuleB>>
    /\ Matching(crules, ctrans.Description) = {1, 2}
    /\ cout.t.Account = RuleB.Account

\* C3: over all the transactions pushed, in order, the counter is 1 for the
\* first one and after a change of date, and otherwise one more than the
\* counter before it; files and headers in between change nothing.
C3_CounterSequence ==
    \A i \in 1..Len(sent) :
        CounterOf(sent[i].t) =
            IF i = 1 \/ sent[i].t.Date # sent[i - 1].t.Date
            THEN 1
            ELSE CounterOf(sent[i - 1].t) + 1

C3_Witness ==
    \E i \in 2..Len(sent) :
        /\ sent[i].t.Date = sent[i - 1].t.Date
        /\ lines[sent[i].at].file # lines[sent[i - 1].at].file
        /\ sent[i].at > sent[i - 1].at + 1
        /\ CounterOf(sent[i].t) = 2

\* C4: no two transactions of a run have the same id (fewer than 100
\* transactions share a date in every run of the model).
C4_UniqueIds ==
    \A i \in 1..Len(sent), j \in 1..Len(sent) :
        i # j => sent[i].t.ID # sent[j].t.ID

\* C5: the value of the destination record has the magnitude of the value of
\* the source record and the opposite sign, for every value valueParse returns.
C5_DestinationNegates ==
    vdone => /\ Magnitude(vinv) = Magnitude(vvalue)
             /\ Sign(vinv) = 0 - Sign(vvalue)

C5_Witness ==
    /\ vdone /\ ~vcredit
    /\ TrimSpace(vline[6]) = <<>>
    /\ vvalue = <<"-", "5", ".", "0", "0">>
    /\ vinv = <<"5", ".", "0", "0">>

\* C6: the value is the trimmed primary field when it is neither empty nor
\* "0.00", and otherwise '-' followed by the trimmed fallback field.
C6_ValueSelection ==
    vdone =>
        LET primary == TrimSpace(IF vcredit THEN vline[4] ELSE vline[6])
            fallback == TrimSpace(IF vcredit THEN vline[5] ELSE vline[7])
        IN vvalue = IF primary # <<>> /\ primary # <<"0", ".", "0", "0">>
                    THEN primary
                    ELSE <<"-">> \o fallback

C6_Witness ==
    /\ vdone /\ ~vcredit
    /\ vline[6] = <<" ", "0", ".", "0", "0">>
    /\ vline[7] = <<" ", "7", " ">>
    /\ vvalue = <<"-", "7">>

\* C7: a header record never becomes a transaction; a record after headers of
\* its file is parsed with the layout of the last of them; a header with
\* another first field ends the run.
C7_HeaderSelectsLayout ==
    /\ \A i \in 1..Len(sent) :
         LET k == sent[i].at
             hs == HeadersBefore(k)
         IN /\ ~IsHeader(lines[k].line)
            /\ hs # {} =>
                 LET first == lines[SetMax(hs)].line[1]
                 IN /\ first = MaskedCardNumber
                         => sent[i].t.Value = valueParse(lines[k].line, TRUE)
                    /\ first = PostedAccount
                         => sent[i].t.Value = valueParse(lines[k].line, FALSE)
    /\ \A j \in 1..Len(lines) :
         (IsHeader(lines[j].line) /\ lines[j].line[1] \notin {MaskedCardNumber, PostedAccount})
             => /\ phase = "exit" /\ exitCode # 0
                /\ j = Len(lines)

C7_Witness ==
    \E i \in 1..Len(sent) :
        LET k == sent[i].at
        IN /\ k = 3
           /\ lines[1].file = lines[3].file
           /\ lines[1].line = HdrCredit
           /\ lines[2].line = HdrDebit
           /\ lines[3].line = Row1
           /\ sent[i].t.Value = <<"-", "8", ".", "0", "0">>

\* C8: an invocation with three or more positional arguments is accepted: it
\* gets no usage message and no exit for its argument count.
C8_AcceptsThreeOrMore ==
    (phase # "main" /\ nargs >= 3) => (~usage /\ fatal # "usage")

\* C9 as stated: after a fatal failure of the parser the sink holds nothing.
C9_NoPartialOutput ==
    ParserFatal => sink = <<>>

\* C9 as amended: a fatal failure of the parser ends the process with status 1
\* and the sink is left as it was: the header, then the records of earlier
\* transactions that the writer had flushed, the rest lost in its buffer.
C9_AbortKeepsOutput ==
    ParserFatal =>
        /\ phase = "exit" /\ exitCode = 1
        /\ sink \o buf = <<CsvHeader>> \o RecordsWritten

C9_Witness ==
    /\ fatal = "date"
    /\ Len(processed) >= 1
    /\ Len(sink) = 3
    /\ buf = <<>>

\* C10: transactions are received once each and in the order pushed; under
\* fair scheduling the process ends; when it ends without a fatal error the
\* parser went through every file and closed the channel, every transaction
\* pushed was processed and the writer is flushed; a send never blocks forever,
\* since the process ends and the parser is not at its send when it ends cleanly.
Delivered ==
    /\ Len(processed) + Len(cur) <= Len(sent)
    /\ \A i \in 1..Len(processed) : Base(processed[i].t) = Base(sent[i].t)
    /\ cur # <<>> => Base(cur[1]) = Base(sent[Len(processed) + 1].t)

CleanEnd ==
    /\ closed /\ ppc = "done" /\ cpc = "done" /\ fileIdx > nInputs
    /\ ch = <<>> /\ cur = <<>>
    /\ Len(processed) = Len(sent)
    /\ buf = <<>>

C10_DeliveryAndTermination ==
    /\ []Delivered
    /\ <>(phase = "exit")
    /\ []((phase = "exit" /\ fatal = "none") => CleanEnd)

C10_Witness ==
    /\ phase = "exit" /\ fatal = "none" /\ exitCode = 0
    /\ nInputs = 2
    /\ Len(processed) = 2
    /\ lines[sent[1].at].file # lines[sent[2].at].file

====
